---- MODULE Spec2Model ----
(***************************************************************************)
(* The theme store of typerush (ThemeProvider / useTheme): the React state *)
(* of the provider, the closures its renders and effects capture, the      *)
(* document root and head it writes, localStorage and the OS colour-scheme *)
(* media query.                                                            *)
(***************************************************************************)
EXTENDS Naturals, Sequences, FiniteSets

VARIABLES
    hasWindow,      \* typeof window !== "undefined" in this environment
    storageMode,    \* "ok", "quota" (setItem throws) or "blocked" (both throw)
    storage,        \* localStorage: key -> stored string, Null when absent
    osDark,         \* window.matchMedia("(prefers-color-scheme: dark)").matches
    cfg,            \* the props of the ThemeProvider
    mounted,        \* a ThemeProvider is in the tree
    theme,          \* useState: theme
    systemTheme,    \* useState: systemTheme
    pendTheme,      \* queued setThemeState value not rendered yet (Null: none)
    pendSys,        \* queued setSystemTheme value not rendered yet (Null: none)
    contextValue,   \* the value of the last committed render, seen by consumers
    effectPending,  \* the committed render's effect has not run yet
    listener,       \* the handleSystemThemeChange the last effect run added (and its
                    \* cleanup removes), with what it closes over
    listeners,      \* the change listeners on the media query, in the order added
    root,           \* document.documentElement: the theme attribute and classes
    raf,            \* pending animation-frame callbacks, oldest first; each entry
                    \* tells whether the style rule added with it is still in head
    headStyles,     \* how many transition-suppressing style elements are in head
    frameLog,       \* history: whether the latest frame callback ran after unmount
                    \* with its own rule gone, and whether a removal threw
    outsider,       \* what useTheme() gave a component outside every provider
    lastCall,       \* history: the latest setTheme argument, whether this store got it,
                    \* and the explicit theme the store was settled at when called
    reported        \* history: the colour scheme the OS last reported to this store
                    \* (the initial query or the latest change event handled), and
                    \* the theme that event was handled under (Null: the initial
                    \* query, or setTheme was called since)

vars == <<hasWindow, storageMode, storage, osDark, cfg, mounted, theme, systemTheme,
          pendTheme, pendSys, contextValue, effectPending, listener, listeners,
          root, raf, headStyles, frameLog, outsider, lastCall, reported>>

\* Bound: pending animation-frame callbacks.
MaxRaf == 2

Null == "<null>"
Themes == {"light", "dark", "system"}
SystemThemes == {"light", "dark"}
\* What may sit under a storage key at start: nothing, the empty string, a
\* preference tag, or some other text.
StoredValues == {Null, "", "light", "dark", "system", "sepia"}
StorageKeys == {"ui-theme", "app-theme"}

\* The two sets of props other than defaultTheme that are explored: the
\* defaults, and every option set to a non-default.  In value, "" stands for a
\* label that is not given.
DefaultProps ==
    [defaultTheme |-> "system", storageKey |-> "ui-theme",
     disableTransitionOnChange |-> TRUE, enableSystem |-> TRUE,
     attribute |-> "data-theme", value |-> [light |-> "light", dark |-> "dark"]]
CustomProps ==
    [defaultTheme |-> "system", storageKey |-> "app-theme",
     disableTransitionOnChange |-> FALSE, enableSystem |-> FALSE,
     attribute |-> "false", value |-> [light |-> "day", dark |-> ""]]
Configs == {[c EXCEPT !.defaultTheme = d] : c \in {DefaultProps, CustomProps}, d \in Themes}

\* JavaScript's a || b on strings.
Or(a, b) == IF a = Null \/ a = "" THEN b ELSE a

initialState ==
    [theme |-> "system", systemTheme |-> "light", resolvedTheme |-> "light",
     themes |-> <<"light", "dark", "system">>]

\* No provider rendered.
NoContext == [theme |-> Null, systemTheme |-> Null, resolvedTheme |-> Null, themes |-> <<>>]
NoListener == [on |-> FALSE, theme |-> Null, systemTheme |-> Null]
NoCall == [pref |-> Null, live |-> FALSE, from |-> Null]
NoReport == [value |-> Null, while |-> Null]
Undefined == [undefined |-> TRUE]
Threw == [threw |-> "useTheme must be used within a ThemeProvider"]
NotRendered == [rendered |-> FALSE]
NoFrame == [late |-> FALSE, threw |-> FALSE]
EmptyRoot == [attr |-> Null, classes |-> {}]

getItem(key) == storage[key]

\* Variant of the theme initializer with no try/catch around the read: a
\* throwing storage leaves the store without a theme.
themeInitializerUncaught(c) ==
    IF ~hasWindow THEN c.defaultTheme
    ELSE IF storageMode = "blocked" THEN Null
    ELSE Or(getItem(c.storageKey), c.defaultTheme)

\* useState initializer of theme.
themeInitializer(c) ==
    IF ~hasWindow THEN c.defaultTheme
    ELSE IF storageMode = "blocked" THEN c.defaultTheme
    ELSE Or(getItem(c.storageKey), c.defaultTheme)

\* What the media query answers now.
OsTheme == IF osDark THEN "dark" ELSE "light"

\* Variant of the systemTheme initializer that does not query the OS.
systemThemeInitializerNoQuery == "light"

\* useState initializer of systemTheme.
systemThemeInitializer ==
    IF ~hasWindow THEN "light"
    ELSE IF osDark THEN "dark" ELSE "light"

resolvedTheme(t, s) == IF t = "system" THEN s ELSE t

themes(c) == IF c.enableSystem THEN <<"light", "dark", "system">> ELSE <<"light", "dark">>

\* Variant of the context value whose resolvedTheme memo lists theme alone as
\* its dependency: it is recomputed only when theme changes.
makeContextStaleMemo(c, t, s) ==
    [theme |-> t, systemTheme |-> s,
     resolvedTheme |-> IF t = contextValue.theme THEN contextValue.resolvedTheme
                                                 ELSE resolvedTheme(t, s),
     themes |-> themes(c)]

makeContext(c, t, s) ==
    [theme |-> t, systemTheme |-> s, resolvedTheme |-> resolvedTheme(t, s),
     themes |-> themes(c)]

\* The label applyTheme writes for a resolved theme.
markerLabel(c, resolved) ==
    IF resolved = "light" THEN Or(c.value.light, "light") ELSE Or(c.value.dark, "dark")

\* Variant of applyTheme's resolution that takes systemTheme whatever newTheme is.
applyResolvedAlwaysSystem(closureSys, newTheme) == closureSys

\* applyTheme's resolved value, for the systemTheme its closure holds.
applyResolved(closureSys, newTheme) ==
    IF newTheme = "system" THEN closureSys ELSE newTheme

\* Variant of the marker update that leaves the earlier marker in place.
applyRootKeeping(c, r, resolved) ==
    IF c.attribute = "false"
    THEN [r EXCEPT !.classes = @ \cup {markerLabel(c, resolved)}]
    ELSE [r EXCEPT !.attr = markerLabel(c, resolved)]

\* applyTheme's writes to document.documentElement.
applyRoot(c, r, resolved) ==
    LET cleared == [attr |-> IF c.attribute # "false" THEN Null ELSE r.attr,
                    classes |-> r.classes \ {Or(c.value.light, "light"),
                                             Or(c.value.dark, "dark")}]
    IN  IF c.attribute = "false"
        THEN [cleared EXCEPT !.classes = @ \cup {markerLabel(c, resolved)}]
        ELSE [cleared EXCEPT !.attr = markerLabel(c, resolved)]

\* applyTheme's style rule and its requestAnimationFrame callback.
applyRaf(c, q) == IF c.disableTransitionOnChange THEN Append(q, TRUE) ELSE q

\* Variant of the style insertion that does not test disableTransitionOnChange.
applyHeadAlways(c, h) == h + 1

\* applyTheme's style element appended to head.
applyHead(c, h) == IF c.disableTransitionOnChange THEN h + 1 ELSE h

\* applyTheme can run: the bound on pending frame callbacks leaves room.
RafRoom == ~cfg.disableTransitionOnChange \/ Len(raf) < MaxRaf

\* A queued state update: React drops a set to the current value when nothing
\* else is queued, and the last queued value wins otherwise.
enqueue(v, cur, pend, otherPend) ==
    IF pend = Null /\ otherPend = Null /\ v = cur THEN Null ELSE v

Init ==
    /\ hasWindow \in BOOLEAN
    /\ storageMode \in {"ok", "quota", "blocked"}
    /\ cfg \in Configs
    /\ \E v \in StoredValues :
          storage = [k \in StorageKeys |-> IF k = cfg.storageKey THEN v ELSE Null]
    /\ osDark \in BOOLEAN
    /\ mounted = FALSE
    /\ theme = Null
    /\ systemTheme = Null
    /\ pendTheme = Null
    /\ pendSys = Null
    /\ contextValue = NoContext
    /\ effectPending = FALSE
    /\ listener = NoListener
    /\ listeners = <<>>
    /\ root = EmptyRoot
    /\ raf = <<>>
    /\ headStyles = 0
    /\ frameLog = NoFrame
    /\ outsider = NotRendered
    /\ lastCall = NoCall
    /\ reported = NoReport

\* The first render of a ThemeProvider given defaultTheme d, and its commit.
Mount(d) ==
    /\ ~mounted
    /\ cfg' = [cfg EXCEPT !.defaultTheme = d]
    /\ theme' = themeInitializer(cfg')
    /\ systemTheme' = systemThemeInitializer
    /\ contextValue' = makeContext(cfg', theme', systemTheme')
    /\ mounted' = TRUE
    /\ effectPending' = hasWindow
    /\ pendTheme' = Null
    /\ pendSys' = Null
    /\ listener' = NoListener
    /\ lastCall' = [lastCall EXCEPT !.live = FALSE, !.from = Null]
    /\ reported' = [value |-> IF hasWindow THEN OsTheme ELSE Null, while |-> Null]
    /\ frameLog' = NoFrame
    /\ UNCHANGED <<hasWindow, storageMode, storage, osDark, listeners, root, raf,
                   headStyles, outsider>>

\* Variant of the write that uses the default key instead of the storageKey prop.
setItemDefaultKey(key, v) ==
    IF storageMode = "ok" THEN [storage EXCEPT !["ui-theme"] = v] ELSE storage

\* localStorage.setItem inside setTheme's try/catch.
setItem(key, v) == IF storageMode = "ok" THEN [storage EXCEPT ![key] = v] ELSE storage

\* setTheme(newTheme), called through the committed render's context value.
setTheme(newTheme) ==
    /\ mounted
    /\ hasWindow
    /\ RafRoom
    /\ storage' = setItem(cfg.storageKey, newTheme)
    /\ pendTheme' = enqueue(newTheme, theme, pendTheme, pendSys)
    /\ root' = applyRoot(cfg, root, applyResolved(systemTheme, newTheme))
    /\ raf' = applyRaf(cfg, raf)
    /\ headStyles' = applyHead(cfg, headStyles)
    /\ lastCall' = [pref |-> newTheme, live |-> TRUE,
                     from |-> IF ~effectPending /\ pendTheme = Null /\ pendSys = Null
                                    /\ theme \in SystemThemes
                              THEN theme ELSE Null]
    /\ reported' = [reported EXCEPT !.while = Null]
    /\ UNCHANGED <<hasWindow, storageMode, osDark, cfg, mounted, theme, systemTheme,
                   pendSys, contextValue, effectPending, listener, listeners, frameLog,
                   outsider>>

SetTheme(p) == setTheme(p)

\* Variant of the toggle that cycles through the three preferences.
toggleTargetCycle(t) ==
    IF t = "light" THEN "dark" ELSE IF t = "dark" THEN "system" ELSE "light"

\* The argument toggleTheme gives setTheme.
toggleTarget(t) == IF t = "light" THEN "dark" ELSE "light"

ToggleTheme == setTheme(toggleTarget(theme))

\* React renders the queued updates: all of them, or (lanes = "theme") the
\* theme update alone while a systemTheme update of lower priority waits.  A
\* render that changes neither state commits nothing.
Render(lanes) ==
    /\ mounted
    /\ ~effectPending
    /\ IF lanes = "theme" THEN pendTheme # Null /\ pendSys # Null
                          ELSE pendTheme # Null \/ pendSys # Null
    /\ LET t == IF pendTheme # Null THEN pendTheme ELSE theme
           s == IF pendSys # Null /\ lanes = "all" THEN pendSys ELSE systemTheme
       IN  /\ theme' = t
           /\ systemTheme' = s
           /\ pendTheme' = Null
           /\ pendSys' = IF lanes = "all" THEN Null ELSE pendSys
           /\ IF t = theme /\ s = systemTheme
              THEN UNCHANGED <<contextValue, effectPending>>
              ELSE /\ contextValue' = makeContext(cfg, t, s)
                   /\ effectPending' = TRUE
    /\ UNCHANGED <<hasWindow, storageMode, storage, osDark, cfg, mounted, listener,
                   listeners, root, raf, headStyles, frameLog, outsider, lastCall,
                   reported>>

\* Variant of the write-back that never equals the systemTheme it read.
effectSystemThemeFlipping(t, s) == IF s = "light" THEN "dark" ELSE "light"

\* What the effect writes back with setSystemTheme.
effectSystemTheme(t, s) == applyResolved(s, t)

\* Variant of the effect's cleanup that removes nothing.
removeListenerNever(hs, l) == hs

\* The effect's cleanup: removeEventListener of the handler that effect added.
removeListener(hs, l) ==
    LET at == {i \in 1..Len(hs) : hs[i] = [theme |-> l.theme, systemTheme |-> l.systemTheme]}
    IN  IF ~l.on \/ at = {} THEN hs
        ELSE LET k == CHOOSE i \in at : \A j \in at : i <= j
             IN  SubSeq(hs, 1, k - 1) \o SubSeq(hs, k + 1, Len(hs))

\* The effect of the committed render: the previous listener is removed,
\* applyTheme(theme), setSystemTheme(resolved), and the new listener is added.
RunEffect ==
    /\ mounted
    /\ effectPending
    /\ RafRoom
    /\ root' = applyRoot(cfg, root, applyResolved(systemTheme, theme))
    /\ raf' = applyRaf(cfg, raf)
    /\ headStyles' = applyHead(cfg, headStyles)
    /\ pendSys' = enqueue(effectSystemTheme(theme, systemTheme), systemTheme, pendSys, pendTheme)
    /\ listener' = [on |-> TRUE, theme |-> theme, systemTheme |-> systemTheme]
    /\ listeners' = Append(removeListener(listeners, listener),
                           [theme |-> theme, systemTheme |-> systemTheme])
    /\ effectPending' = FALSE
    /\ UNCHANGED <<hasWindow, storageMode, storage, osDark, cfg, mounted, theme,
                   systemTheme, pendTheme, contextValue, frameLog, outsider, lastCall,
                   reported>>

\* handleSystemThemeChange applies the theme when the theme it closed over is this.
handlerApplies(t) == t = "system"

\* The root after each handler of hs, in order, has run its applyTheme("system").
RECURSIVE dispatchRoot(_, _, _)
dispatchRoot(c, hs, r) ==
    IF hs = <<>> THEN r
    ELSE dispatchRoot(c, Tail(hs),
                      IF handlerApplies(Head(hs).theme)
                      THEN applyRoot(c, r, applyResolved(Head(hs).systemTheme, "system"))
                      ELSE r)

\* The frame callbacks after each handler of hs has run.
RECURSIVE dispatchRaf(_, _, _)
dispatchRaf(c, hs, q) ==
    IF hs = <<>> THEN q
    ELSE dispatchRaf(c, Tail(hs),
                     IF handlerApplies(Head(hs).theme) THEN applyRaf(c, q) ELSE q)

\* The style elements in head after each handler of hs has run.
RECURSIVE dispatchHead(_, _, _)
dispatchHead(c, hs, h) ==
    IF hs = <<>> THEN h
    ELSE dispatchHead(c, Tail(hs),
                      IF handlerApplies(Head(hs).theme) THEN applyHead(c, h) ELSE h)

\* Variant of the handler's state update that goes to the theme state.
handlerUpdateTheme(v) ==
    [theme |-> enqueue(v, theme, pendTheme, pendSys), systemTheme |-> pendSys]

\* The update handleSystemThemeChange queues: setSystemTheme(newSystemTheme).
handlerUpdate(v) ==
    [theme |-> pendTheme, systemTheme |-> enqueue(v, systemTheme, pendSys, pendTheme)]

\* How many handlers of hs call applyTheme.
applyingHandlers(hs) == Cardinality({i \in 1..Len(hs) : handlerApplies(hs[i].theme)})

\* The OS colour scheme flips; every handleSystemThemeChange on the media
\* query runs with the theme and applyTheme its effect closed over.
OSChange ==
    /\ hasWindow
    /\ cfg.disableTransitionOnChange => Len(raf) + applyingHandlers(listeners) <= MaxRaf
    /\ osDark' = ~osDark
    /\ LET newSystemTheme == IF osDark' THEN "dark" ELSE "light"
       IN  IF listeners # <<>>
           THEN /\ pendSys' = handlerUpdate(newSystemTheme).systemTheme
                /\ pendTheme' = handlerUpdate(newSystemTheme).theme
                /\ root' = dispatchRoot(cfg, listeners, root)
                /\ raf' = dispatchRaf(cfg, listeners, raf)
                /\ headStyles' = dispatchHead(cfg, listeners, headStyles)
                /\ reported' =
                      [value |-> newSystemTheme,
                       while |-> IF theme = listener.theme /\ pendTheme = Null
                                 THEN theme ELSE "changing"]
           ELSE UNCHANGED <<pendTheme, pendSys, root, raf, headStyles, reported>>
    /\ UNCHANGED <<hasWindow, storageMode, storage, cfg, mounted, theme, systemTheme,
                   contextValue, effectPending, listener, listeners, frameLog,
                   outsider, lastCall>>

\* Variant of the frame callback that also removes the style element its own
\* applyTheme call created, found in head or not.
frameTargetsAndOwn(q) == {1} \cup {i \in 1..Len(q) : q[i]}

\* The rules the oldest frame callback removes, as places in q: every style
\* element it finds in head whose text has the transition rule.
frameTargets(q) == {i \in 1..Len(q) : q[i]}

\* The oldest requestAnimationFrame callback runs and removes its targets from
\* head; removeChild throws for a target that is not in head.
AnimationFrame ==
    /\ raf # <<>>
    /\ LET targets == frameTargets(raf)
           found == Cardinality({i \in targets : raf[i]})
       IN  /\ raf' = [i \in 1..(Len(raf) - 1) |-> raf[i + 1] /\ (i + 1) \notin targets]
           /\ headStyles' = IF found > headStyles THEN 0 ELSE headStyles - found
           /\ frameLog' = [late |-> ~mounted /\ ~raf[1],
                           threw |-> \E i \in targets : ~raf[i]]
    /\ UNCHANGED <<hasWindow, storageMode, storage, osDark, cfg, mounted, theme,
                   systemTheme, pendTheme, pendSys, contextValue, effectPending,
                   listener, listeners, root, outsider, lastCall, reported>>

\* The provider leaves the tree: the effect's cleanup removes the listener.
Unmount ==
    /\ mounted
    /\ hasWindow
    /\ mounted' = FALSE
    /\ theme' = Null
    /\ systemTheme' = Null
    /\ pendTheme' = Null
    /\ pendSys' = Null
    /\ contextValue' = NoContext
    /\ effectPending' = FALSE
    /\ listener' = NoListener
    /\ listeners' = removeListener(listeners, listener)
    /\ reported' = NoReport
    /\ UNCHANGED <<hasWindow, storageMode, storage, osDark, cfg, root, raf, headStyles,
                   frameLog, outsider, lastCall>>

\* useContext(ThemeProviderContext): the provider's value, or createContext's default.
useContext(insideProvider) == IF insideProvider THEN contextValue ELSE initialState

useTheme(insideProvider) ==
    LET context == useContext(insideProvider)
    IN  IF context = Undefined THEN Threw ELSE context

\* A component with no ThemeProvider above it calls useTheme().
UseThemeOutside ==
    /\ outsider' = useTheme(FALSE)
    /\ UNCHANGED <<hasWindow, storageMode, storage, osDark, cfg, mounted, theme,
                   systemTheme, pendTheme, pendSys, contextValue, effectPending,
                   listener, listeners, root, raf, headStyles, frameLog, lastCall,
                   reported>>

Next ==
    \/ \E d \in Themes : Mount(d)
    \/ \E p \in Themes : SetTheme(p)
    \/ ToggleTheme
    \/ \E lanes \in {"all", "theme"} : Render(lanes)
    \/ RunEffect
    \/ OSChange
    \/ AnimationFrame
    \/ Unmount
    \/ UseThemeOutside

Spec == Init /\ [][Next]_vars

\* No update is queued and no effect is waiting.
Settled == mounted /\ hasWindow /\ ~effectPending /\ pendTheme = Null /\ pendSys = Null

\* The theme marker on the root, as the props place it.
Marker == IF cfg.attribute = "false" THEN root.classes ELSE {root.attr}

Opposite(r) == IF r = "light" THEN "dark" ELSE "light"

\* C1: every toggleTheme() step is the step setTheme(opposite of the current
\* resolvedTheme) would take, also when theme = "system".
C1_ToggleIsSetOpposite ==
    [][ToggleTheme => setTheme(Opposite(contextValue.resolvedTheme))]_vars

\* C2: once the store has settled, the exposed systemTheme is the colour scheme
\* the OS last reported (the initial query or the latest change event),
\* whatever the theme preference is.
C2_SystemThemeIsReported ==
    Settled => contextValue.systemTheme = reported.value

\* C3: an OS change handled while theme is "light" or "dark" leaves
\* resolvedTheme and the root marker as they were, and once the store has
\* settled systemTheme is the value that event reported.
C3_ExplicitKeepsReported ==
    /\ [][(OSChange /\ listener.on /\ theme \in SystemThemes /\ listener.theme = theme)
            => (root' = root /\ contextValue'.resolvedTheme = contextValue.resolvedTheme)]_vars
    /\ []((Settled /\ reported.while \in SystemThemes)
            => contextValue.systemTheme = reported.value)

\* C4: after an OS change handled while theme = "system", with no user action
\* since, the settled store has systemTheme, resolvedTheme and the root marker
\* all at the value the event reported.
C4_SystemFollowsOs ==
    (Settled /\ reported.while = "system")
        => /\ contextValue.systemTheme = reported.value
           /\ contextValue.resolvedTheme = reported.value
           /\ Marker = {markerLabel(cfg, reported.value)}

\* C5: after setTheme(p) with p "light" or "dark", the settled store has
\* theme = p and resolvedTheme = p, and the root marker is the label of p,
\* whatever the OS scheme and systemTheme are.
C5_ExplicitPreferenceWins ==
    (Settled /\ lastCall.live /\ lastCall.pref \in SystemThemes)
        => /\ contextValue.theme = lastCall.pref
           /\ contextValue.resolvedTheme = lastCall.pref
           /\ Marker = {markerLabel(cfg, lastCall.pref)}

\* setTheme("light") has settled under a dark OS and the marker is the light label.
C5_Witness ==
    /\ Settled
    /\ lastCall.live
    /\ lastCall.pref = "light"
    /\ osDark
    /\ reported.value = "dark"
    /\ cfg.value.light = "day"
    /\ Marker = {"day"}

\* C6: the context value consumers read is one snapshot: its theme is the
\* provider's theme state, and its resolvedTheme is its own systemTheme when
\* its theme is "system" and its own theme otherwise.
C6_ResolvedIsConsistent ==
    mounted =>
        /\ contextValue.theme = theme
        /\ contextValue.systemTheme = systemTheme
        /\ contextValue.theme = "system"
              => contextValue.resolvedTheme = contextValue.systemTheme
        /\ contextValue.theme # "system"
              => contextValue.resolvedTheme = contextValue.theme

\* theme = "system" again after a setTheme call, and an OS change to dark has
\* been rendered.
C6_Witness ==
    /\ mounted
    /\ lastCall.live
    /\ contextValue.theme = "system"
    /\ reported.while = "system"
    /\ reported.value = "dark"
    /\ contextValue.systemTheme = "dark"
    /\ contextValue.resolvedTheme = "dark"

\* C7: useTheme() in a component outside every ThemeProvider raises an error.
C7_OutsideThrows ==
    outsider # NotRendered => outsider = Threw

\* C8: a stored string that is no preference tag is treated as nothing stored
\* (theme starts as defaultTheme), so theme is always a preference tag and
\* resolvedTheme is always "light" or "dark".
C8_CorruptedIsUnset ==
    /\ [][\A d \in Themes :
            (Mount(d) /\ hasWindow /\ storageMode # "blocked"
                /\ storage[cfg.storageKey] \notin Themes) => theme' = d]_vars
    /\ [](mounted => (theme \in Themes /\ contextValue.resolvedTheme \in SystemThemes))

\* C9: with working storage the value under the storage key is the argument of
\* the latest setTheme/toggleTheme call, and a store mounted afterwards with
\* that key starts with that theme, whatever its defaultTheme and the OS scheme.
C9_PersistRoundTrip ==
    /\ []((storageMode = "ok" /\ lastCall.pref # Null)
            => storage[cfg.storageKey] = lastCall.pref)
    /\ [][\A d \in Themes :
            (Mount(d) /\ storageMode = "ok" /\ lastCall.pref # Null)
                => theme' = lastCall.pref]_vars

\* A fresh store recovered "dark" against defaultTheme "light" and a light OS.
C9_Witness ==
    /\ mounted
    /\ storageMode = "ok"
    /\ ~lastCall.live
    /\ lastCall.pref = "dark"
    /\ theme = "dark"
    /\ cfg.defaultTheme = "light"
    /\ ~osDark

\* C10: when storage throws on read the store still mounts, with theme =
\* defaultTheme; when it throws on write, setTheme(p) still brings the settled
\* store to theme = p, with resolvedTheme and the root marker following.
C10_StorageFailureTolerated ==
    /\ [][\A d \in Themes :
            (Mount(d) /\ storageMode = "blocked") => (mounted' /\ theme' = d)]_vars
    /\ []((Settled /\ lastCall.live /\ storageMode # "ok")
            => /\ contextValue.theme = lastCall.pref
               /\ contextValue.resolvedTheme
                     = (IF lastCall.pref = "system" THEN contextValue.systemTheme
                                                    ELSE lastCall.pref)
               /\ Marker = {markerLabel(cfg, contextValue.resolvedTheme)})

\* setTheme("dark") settled although the write failed and storage kept "light".
C10_Witness ==
    /\ Settled
    /\ lastCall.live
    /\ storageMode = "quota"
    /\ lastCall.pref = "dark"
    /\ storage[cfg.storageKey] = "light"
    /\ contextValue.theme = "dark"
    /\ Marker = {markerLabel(cfg, "dark")}

\* C11: a toggleTheme() call made in a settled store whose theme is "light" or
\* "dark" queues the other of the two, which is the theme once settled; and a
\* second toggleTheme() made then, whatever OS changes came between, queues
\* the theme the first call started from.
C11_ToggleTwiceReturns ==
    /\ [][(ToggleTheme /\ Settled /\ theme \in SystemThemes)
            => /\ lastCall'.from = theme
               /\ lastCall'.pref = Opposite(theme)
               /\ pendTheme' = Opposite(theme)]_vars
    /\ []((Settled /\ lastCall.live /\ lastCall.from \in SystemThemes
                   /\ lastCall.pref = Opposite(lastCall.from))
            => theme = Opposite(lastCall.from))
    /\ [][(ToggleTheme /\ Settled /\ lastCall.live /\ lastCall.from \in SystemThemes
                       /\ lastCall.pref = Opposite(lastCall.from))
            => /\ pendTheme' = lastCall.from
               /\ lastCall'.pref = lastCall.from
               /\ lastCall'.from = Opposite(lastCall.from)]_vars

\* A call made at settled "dark" has settled at "light" under a dark OS: the
\* state a second toggle leaves when the first started from "light".
C11_Witness ==
    /\ Settled
    /\ lastCall.live
    /\ lastCall.from = "dark"
    /\ lastCall.pref = "light"
    /\ theme = "light"
    /\ osDark

\* C12: with enableSystem off the theme is never "system": it is always one of
\* the exposed themes, at mount and after every setTheme call.
C12_ThemeIsSelectable ==
    (mounted /\ ~cfg.enableSystem)
        => /\ theme # "system"
           /\ \E i \in DOMAIN contextValue.themes : contextValue.themes[i] = theme

\* C13: a store with the default props and no stored value, mounted under an
\* OS that reports dark (light), settles, while nothing else happens, with
\* theme = "system", systemTheme and resolvedTheme dark (light) and the
\* data-theme attribute "dark" ("light").
C13_DefaultMountFollowsOs ==
    (/\ Settled
     /\ cfg = DefaultProps
     /\ storage[cfg.storageKey] = Null
     /\ ~lastCall.live
     /\ reported.while = Null)
        => /\ reported.value \in SystemThemes
           /\ contextValue.theme = "system"
           /\ contextValue.systemTheme = reported.value
           /\ contextValue.resolvedTheme = reported.value
           /\ root.attr = reported.value
           /\ root.classes = {}

\* The default store has settled under an OS that reported dark.
C13_Witness ==
    /\ Settled
    /\ cfg = DefaultProps
    /\ storage[cfg.storageKey] = Null
    /\ ~lastCall.live
    /\ reported = [value |-> "dark", while |-> Null]
    /\ osDark
    /\ contextValue.systemTheme = "dark"
    /\ root.attr = "dark"

\* C14: at most one handleSystemThemeChange of the store is on the media query
\* at any time, none is after unmount, and an OS notification that arrives
\* after unmount changes nothing of the store, the root or the head.
C14_OneListenerUntilUnmount ==
    /\ [](Len(listeners) <= 1)
    /\ [](~mounted => listeners = <<>>)
    /\ [][(OSChange /\ ~mounted) =>
            UNCHANGED <<theme, systemTheme, pendTheme, pendSys, contextValue, root, raf,
                        headStyles, storage>>]_vars

C14_Witness ==
    /\ ~mounted
    /\ listeners = <<>>
    /\ lastCall.pref # Null
    /\ root # EmptyRoot
    /\ reported = NoReport

\* C15: a frame callback that runs while newer callbacks are still scheduled
\* leaves the rules of those newer applications in head.
C15_RemovesOnlyOwnRule ==
    [][AnimationFrame => \A i \in 2..Len(raf) : raf'[i - 1] = raf[i]]_vars

\* C16: once no frame callback is scheduled, no suppression style element is
\* left in head, however many applications overlapped.
C16_RulesAreRemoved == (raf = <<>>) => headStyles = 0

C16_Witness ==
    /\ cfg.disableTransitionOnChange
    /\ root # EmptyRoot
    /\ lastCall.live
    /\ raf = <<>>
    /\ headStyles = 0

\* C17: a frame callback, also one that runs after unmount when its own rule
\* was already removed by an earlier callback, removes only elements that are
\* in head, so removeChild never throws.
C17_FrameCallbackTolerant == ~frameLog.threw

C17_Witness == frameLog.late /\ ~frameLog.threw /\ ~mounted

\* C18: an OS notification and the effect runs it causes leave the queued and
\* committed preference and the storage unchanged; storage is written only by
\* setTheme/toggleTheme, and a committed theme change is the last setTheme's.
C18_OsNeverChangesPreference ==
    /\ [][OSChange => UNCHANGED <<theme, pendTheme, storage>>]_vars
    /\ [][RunEffect => UNCHANGED <<theme, pendTheme, storage>>]_vars
    /\ [][storage' # storage => (ToggleTheme \/ \E p \in Themes : SetTheme(p))]_vars
    /\ [][(mounted /\ mounted' /\ theme' # theme) =>
            (lastCall.live /\ theme' = lastCall.pref)]_vars

C18_Witness ==
    /\ Settled
    /\ lastCall.live
    /\ reported.while # Null
    /\ reported.value # lastCall.pref
    /\ theme = lastCall.pref
    /\ storage[cfg.storageKey] = lastCall.pref

\* C19: in a settled store the root carries exactly one theme marker, the
\* label of the resolvedTheme consumers see.
C19_OneMarkerMatchesResolved ==
    Settled =>
        /\ Marker = {markerLabel(cfg, contextValue.resolvedTheme)}
        /\ cfg.attribute = "false" => Cardinality(root.classes) = 1
        /\ cfg.attribute # "false" => root.attr # Null /\ root.classes = {}

C19_Witness ==
    /\ Settled
    /\ lastCall.live
    /\ reported.while # Null
    /\ cfg.attribute = "false"
    /\ root.classes = {markerLabel(cfg, "dark")}
    /\ contextValue.resolvedTheme = "dark"

\* The write-back is a fixed point for systemTheme x under the committed theme.
stable(x) == effectSystemTheme(theme, x) = x

\* Renders and effect runs still to come when an effect is due with systemTheme x.
fromEffect(x) == IF stable(x) THEN 1 ELSE 3

\* A bound on the renders and effect runs before the store is settled again.
Remaining ==
    IF pendTheme # Null THEN 5 + (IF effectPending THEN 1 ELSE 0)
    ELSE IF ~effectPending
         THEN IF pendSys = Null THEN 0
              ELSE 1 + (IF pendSys = systemTheme THEN 0 ELSE fromEffect(pendSys))
         ELSE IF pendSys = Null THEN fromEffect(systemTheme)
              ELSE IF stable(systemTheme) THEN 2 ELSE 3

\* C20: every render and every effect run lowers a bound that is never above
\* six and never below zero, so after a setTheme call or an OS notification
\* the store settles within six renders and effect runs and never loops.
C20_EffectReachesFixedPoint ==
    /\ [](Remaining \in 0..6)
    /\ [][(RunEffect \/ \E lanes \in {"all", "theme"} : Render(lanes)) =>
            Remaining' < Remaining]_vars

C20_Witness ==
    /\ Settled
    /\ lastCall.live
    /\ theme \in SystemThemes
    /\ systemTheme = theme
    /\ reported.value \in SystemThemes
    /\ reported.value # theme

====
